---- MODULE Spec2Model ----
(***************************************************************************)
(* Conway's Game of Life on a sparse set of live coordinates.              *)
(*                                                                         *)
(*   life.rs  CellSet (i32 coordinates): get_neighbors_keys,               *)
(*            get_self_and_neighbors_keys, count_neighbors, update_cells,  *)
(*            and CellSetBuilder (draft/committed sets, shape factories).  *)
(*   main.rs  Cells (isize coordinates) and the Bevy system update_world.  *)
(*                                                                         *)
(* Four specifications share the variables:                                *)
(*   Spec         the host iterates CellSet::update_cells (one action per  *)
(*                call), from inputs around the origin and inputs at the   *)
(*                limits of i32;                                           *)
(*   SpecBoth     update_cells and update_world iterated side by side;     *)
(*   SpecPar      one step of either implementation at the grain of the    *)
(*                rayon parallel iterators (one action per source item);   *)
(*   SpecBuilder  call sequences of CellSetBuilder.                        *)
(***************************************************************************)
EXTENDS Integers, Sequences, FiniteSets, Bags, TLC

VARIABLES
    cells,            \* life.rs: the CellSet `self` the host holds
    prev,             \* the CellSet the last finished update_cells was called on
    gen,              \* number of finished update_cells calls
    seed,             \* the initial CellSet
    overflow_checks,  \* build profile: TRUE = overflow-checks on (debug), FALSE = off (release)
    panicked,         \* the process aborted on "attempt to add/subtract with overflow"
    cells_to_check,   \* the candidates of the last/ongoing step (a bag: the stream may repeat keys)
    next_cells,       \* the CellSet the last step returned (a bag, so that repeats would show)
    world,            \* main.rs: the set inside the Cells component
    wgen,             \* number of finished update_world runs
    pc,               \* SpecPar: position inside the step
    todo,             \* SpecPar: source items of the running parallel iterator not yet consumed
    local,            \* SpecPar: per worker, the items it has produced (a bag, like its Vec)
    draft,            \* CellSetBuilder.draft
    committed,        \* CellSetBuilder.committed
    built,            \* the CellSet returned by build (a sequence of length <= 1)
    calls,            \* number of builder calls made
    last_call,        \* ghost: the last builder call and its argument
    shape,            \* ghost: the draft shape as its factory produced it
    offset,           \* ghost: the sum of the translate vectors applied to that shape
    expected          \* ghost: earlier shapes, each shifted by its own sum

lifeVars == <<cells, prev, gen, seed, overflow_checks, panicked, cells_to_check, next_cells>>
worldVars == <<world, wgen>>
parVars == <<pc, todo, local>>
builderVars == <<draft, committed, built, calls, last_call, shape, offset, expected>>
vars == <<lifeVars, worldVars, parVars, builderVars>>

----------------------------------------------------------------------------
(* Bounds of the model *)

\* side of the square window around the origin the initial live cells are drawn from
Window == 3
\* largest number of live cells of an initial set drawn from a window
MaxLive == 3
\* number of generations the host computes
MaxGen == 4
\* number of rayon worker threads
NumWorkers == 2
\* number of calls made on a CellSetBuilder after new()
MaxCalls == 6

----------------------------------------------------------------------------
(* life.rs: type Int = i32 *)

IntMax == 2147483647
IntMin == -IntMax - 1

\* x + 1 and x - 1 on i32 with overflow-checks off: two's complement wrap
Add1(x) == IF x = IntMax THEN IntMin ELSE x + 1
Sub1(x) == IF x = IntMin THEN IntMax ELSE x - 1

\* the array with its last element mistyped: (x + 1, y) once more for (x + 1, y + 1)
neighbor_array_corner_lost(key) ==
    LET x == key[1]
        y == key[2]
    IN  << <<Sub1(x), Sub1(y)>>, <<x, Sub1(y)>>, <<Add1(x), Sub1(y)>>,
           <<Sub1(x), y>>, <<Add1(x), y>>,
           <<Sub1(x), Add1(y)>>, <<x, Add1(y)>>, <<Add1(x), y>> >>

\* the eight array elements of get_neighbors_keys, in source order
neighbor_array(key) ==
    LET x == key[1]
        y == key[2]
    IN  << <<Sub1(x), Sub1(y)>>, <<x, Sub1(y)>>, <<Add1(x), Sub1(y)>>,
           <<Sub1(x), y>>, <<Add1(x), y>>,
           <<Sub1(x), Add1(y)>>, <<x, Add1(y)>>, <<Add1(x), Add1(y)>> >>

\* CellSetType::from(array): the HashSet of the array's elements
get_neighbors_keys(key) == {neighbor_array(key)[i] : i \in 1..8}

\* with overflow-checks on, x - 1 or x + 1 panics when key lies on a limit of i32
neighbors_overflow(key) == key[1] \in {IntMin, IntMax} \/ key[2] \in {IntMin, IntMax}

get_self_and_neighbors_keys(key) == get_neighbors_keys(key) \cup {key}

\* the count taken over get_self_and_neighbors_keys: a live key counts itself
count_neighbors_with_self(S, key) ==
    Cardinality({k \in get_self_and_neighbors_keys(key) : k \in S})

\* neighbors.iter().map(|k| self.0.contains(k) as u8).sum(): one for every neighbour key
\* that is in the set
count_neighbors(S, key) == Cardinality({k \in get_neighbors_keys(key) : k \in S})

\* the closure without `count == 2 ||`: a live cell stays alive with 3 neighbours only
evaluate_three_only(S, key) ==
    LET count == count_neighbors(S, key)
    IN  IF count = 3 THEN <<key>> ELSE << >>

\* the closure of the second map: Some(key) is <<key>>, None is << >>
evaluate(S, key) ==
    LET count == count_neighbors(S, key)
        alive == key \in S
    IN  IF alive /\ (count = 2 \/ count = 3) THEN <<key>>
        ELSE IF ~alive /\ count = 3 THEN <<key>>
        ELSE << >>

\* par_iter().map(get_self_and_neighbors_keys).flatten(): the stream of candidates,
\* one occurrence of a key for every live cell that proposes it
RECURSIVE flatten_candidates(_)
flatten_candidates(live) ==
    IF live = {} THEN EmptyBag
    ELSE LET k == CHOOSE k \in live : TRUE
         IN  SetToBag(get_self_and_neighbors_keys(k)) (+) flatten_candidates(live \ {k})

\* .map(evaluate).flatten(): the Somes of the stream, unwrapped, repeats kept
flatten_options(S, stream) ==
    LET somes == {key \in BagToSet(stream) : evaluate(S, key) # << >>}
    IN  [key \in somes |-> CopiesIn(key, stream)]

\* .collect() into a Vec: every occurrence kept
collect_vec(stream) == stream

\* .collect() of a parallel stream into a HashSet: every key once
collect_set(stream) == SetToBag(BagToSet(stream))

\* CellSet::update_cells, without the panic
update_cells(S) == collect_set(flatten_options(S, flatten_candidates(S)))

\* update_cells evaluates get_neighbors_keys on every live cell and on every candidate
update_cells_overflows(S) ==
    \E k \in S : neighbors_overflow(k)
                 \/ \E c \in get_neighbors_keys(k) : neighbors_overflow(c)

----------------------------------------------------------------------------
(* life.rs: the shapes of CellSetBuilder *)

glider_cells == {<<-1, 0>>, <<0, 0>>, <<1, 0>>, <<1, -1>>, <<0, -2>>}
blinker_cells == {<<-1, 0>>, <<0, 0>>, <<1, 0>>}
\* solid_rect(dim): the cells of 0..width x 0..height (half open)
solid_rect_cells(dim) == {<<ix, iy>> : ix \in 0..(dim[1] - 1), iy \in 0..(dim[2] - 1)}

----------------------------------------------------------------------------
(* Initial sets *)

WindowCells == {<<x, y>> : x \in 0..(Window - 1), y \in 0..(Window - 1)}
\* sets around the origin
CentreInputs == {S \in SUBSET WindowCells : Cardinality(S) <= MaxLive}
\* the named patterns, as CellSetBuilder builds them
PatternInputs == {glider_cells, blinker_cells, solid_rect_cells(<<2, 2>>)}
\* sets that touch a limit of i32, such as solid_rect((1, 3)).translate((i32::MAX, 0))
EdgeCells ==
    {<<x, y>> : x \in {IntMax - 1, IntMax}, y \in 0..2} \cup
    {<<x, y>> : x \in {IntMin, IntMin + 1}, y \in 0..2} \cup
    {<<x, y>> : x \in 0..2, y \in {IntMin, IntMax}}
EdgeInputs == {S \in SUBSET EdgeCells : Cardinality(S) <= MaxLive /\ S # {}}

LifeInputs == CentreInputs \cup PatternInputs \cup EdgeInputs

----------------------------------------------------------------------------
(* Initial values of the parts a specification does not use *)

WorldIdle == world = {} /\ wgen = 0
ParIdle == pc = "idle" /\ todo = {} /\ local = << >>
BuilderIdle ==
    /\ draft = {} /\ committed = {} /\ built = << >> /\ calls = 0 /\ last_call = <<"new">>
    /\ shape = {} /\ offset = <<0, 0>> /\ expected = {}

----------------------------------------------------------------------------
(* Spec: the host iterates update_cells *)

Init ==
    /\ seed \in LifeInputs
    /\ cells = seed
    /\ prev = {}
    /\ gen = 0
    /\ overflow_checks \in BOOLEAN
    /\ panicked = FALSE
    /\ cells_to_check = EmptyBag
    /\ next_cells = EmptyBag
    /\ WorldIdle /\ ParIdle /\ BuilderIdle

\* let next = cells.update_cells(); the host then goes on with next
UpdateCells ==
    /\ ~panicked
    /\ gen < MaxGen
    /\ ~(overflow_checks /\ update_cells_overflows(cells))
    /\ cells_to_check' = flatten_candidates(cells)
    /\ LET returned == update_cells(cells)
       IN  next_cells' = returned /\ cells' = BagToSet(returned)
    /\ prev' = cells
    /\ gen' = gen + 1
    /\ UNCHANGED <<seed, overflow_checks, panicked, worldVars, parVars, builderVars>>

\* the same call in a build with overflow-checks on, on a set at a limit of i32
UpdateCellsPanics ==
    /\ ~panicked
    /\ gen < MaxGen
    /\ overflow_checks /\ update_cells_overflows(cells)
    /\ panicked' = TRUE
    /\ UNCHANGED <<cells, prev, gen, seed, overflow_checks, cells_to_check, next_cells,
                   worldVars, parVars, builderVars>>

Next == UpdateCells \/ UpdateCellsPanics

Spec == Init /\ [][Next]_vars

----------------------------------------------------------------------------
(* main.rs: Cells (type Pos = (isize, isize)) and update_world.  The limits of isize *)
(* are out of reach of the sets of this model, so its x - 1 and x + 1 are exact.    *)

main_get_neighbors_keys(key) ==
    LET x == key[1]
        y == key[2]
    IN  {<<x - 1, y - 1>>, <<x, y - 1>>, <<x + 1, y - 1>>,
         <<x - 1, y>>, <<x + 1, y>>,
         <<x - 1, y + 1>>, <<x, y + 1>>, <<x + 1, y + 1>>}

main_get_self_and_neighbors_keys(key) == main_get_neighbors_keys(key) \cup {key}

main_count_neighbors(S, key) == Cardinality({k \in main_get_neighbors_keys(key) : k \in S})

\* the candidates without the neighbours: the live cells only
main_cells_to_check_live_only(S) == S

\* let cells_to_check: CellType = ...flatten().collect(): the candidates, each once
main_cells_to_check(S) == UNION {main_get_self_and_neighbors_keys(k) : k \in S}

\* the closure of the map over cells_to_check: Some(*key) is <<key>>, None is << >>
main_evaluate(S, key) ==
    LET count == main_count_neighbors(S, key)
        alive == key \in S
    IN  IF alive /\ (count = 2 \/ count = 3) THEN <<key>>
        ELSE IF ~alive /\ count = 3 THEN <<key>>
        ELSE << >>

\* let next_live_cells: CellType = cells_to_check.par_iter().map(..).flatten().collect()
main_next_live_cells(S) ==
    {o[1] : o \in {main_evaluate(S, key) : key \in main_cells_to_check(S)} \ {<< >>}}

----------------------------------------------------------------------------
(* SpecBoth: update_cells and update_world iterated from the same initial set.     *)
(* Away from the limits of i32 the two build profiles behave alike: one is taken.   *)

InitBoth ==
    /\ seed \in CentreInputs \cup PatternInputs
    /\ cells = seed
    /\ prev = {}
    /\ gen = 0
    /\ overflow_checks = FALSE
    /\ panicked = FALSE
    /\ cells_to_check = EmptyBag
    /\ next_cells = EmptyBag
    /\ world = seed
    /\ wgen = 0
    /\ ParIdle /\ BuilderIdle

\* the system update_world, run once by the Update schedule: cells.0 = next_cells.0
UpdateWorld ==
    /\ wgen < MaxGen
    /\ world' = main_next_live_cells(world)
    /\ wgen' = wgen + 1
    /\ UNCHANGED <<lifeVars, parVars, builderVars>>

NextBoth == UpdateCells \/ UpdateWorld

SpecBoth == InitBoth /\ [][NextBoth]_vars

----------------------------------------------------------------------------
(* SpecPar: one step at the grain of the parallel iterators.  A worker takes any     *)
(* source item that is left, runs the adapter chain on it and pushes what comes out  *)
(* on its own vector; collect() appends the vectors and builds the HashSet.          *)
(* The inputs lie away from the limits of i32, where the two build profiles behave  *)
(* alike: one is taken.                                                             *)

Workers == 1..NumWorkers
ParInputs == {{}, {<<0, 0>>}, {<<0, 0>>, <<1, 0>>}, blinker_cells}

NoItems == [w \in Workers |-> EmptyBag]

\* the vectors of the workers appended
RECURSIVE append_locals(_, _)
append_locals(loc, ws) ==
    IF ws = {} THEN EmptyBag
    ELSE LET w == CHOOSE w \in ws : TRUE
         IN  loc[w] (+) append_locals(loc, ws \ {w})

\* an Option as the stream of its items
option_items(opt) == IF opt = << >> THEN EmptyBag ELSE SetToBag({opt[1]})

InitPar ==
    /\ seed \in ParInputs
    /\ cells = seed
    /\ prev = {}
    /\ gen = 0
    /\ overflow_checks = FALSE
    /\ panicked = FALSE
    /\ cells_to_check = EmptyBag
    /\ next_cells = EmptyBag
    /\ world = seed
    /\ wgen = 0
    /\ pc = "idle"
    /\ todo = {}
    /\ local = NoItems
    /\ BuilderIdle

\* life.rs update_cells: self.par_iter()
BeginUpdateCells ==
    /\ pc = "idle"
    /\ pc' = "update_cells"
    /\ todo' = cells
    /\ local' = NoItems
    /\ UNCHANGED <<lifeVars, worldVars, builderVars>>

\* one live cell through .map(get_self_and_neighbors_keys).flatten().map(evaluate).flatten()
ConsumeCell(w, k) ==
    /\ pc = "update_cells"
    /\ k \in todo
    /\ todo' = todo \ {k}
    /\ cells_to_check' = cells_to_check (+) SetToBag(get_self_and_neighbors_keys(k))
    /\ local' = [local EXCEPT ![w] =
                    @ (+) flatten_options(cells, SetToBag(get_self_and_neighbors_keys(k)))]
    /\ UNCHANGED <<cells, prev, gen, seed, overflow_checks, panicked, next_cells, pc,
                   worldVars, builderVars>>

\* .collect() and the return of the new CellSet
CollectCells ==
    /\ pc = "update_cells"
    /\ todo = {}
    /\ next_cells' = collect_set(append_locals(local, Workers))
    /\ prev' = cells
    /\ gen' = gen + 1
    /\ pc' = "done"
    /\ UNCHANGED <<cells, seed, overflow_checks, panicked, cells_to_check, todo, local,
                   worldVars, builderVars>>

\* main.rs update_world: cells.0.par_iter()
BeginUpdateWorld ==
    /\ pc = "idle"
    /\ pc' = "collect_candidates"
    /\ todo' = world
    /\ local' = NoItems
    /\ UNCHANGED <<lifeVars, worldVars, builderVars>>

\* one live cell through .map(get_self_and_neighbors_keys).flatten()
ConsumeWorldCell(w, k) ==
    /\ pc = "collect_candidates"
    /\ k \in todo
    /\ todo' = todo \ {k}
    /\ local' = [local EXCEPT ![w] = @ (+) SetToBag(main_get_self_and_neighbors_keys(k))]
    /\ UNCHANGED <<lifeVars, worldVars, pc, builderVars>>

\* .collect() into cells_to_check, then cells_to_check.par_iter()
CollectCandidates ==
    /\ pc = "collect_candidates"
    /\ todo = {}
    /\ cells_to_check' = collect_set(append_locals(local, Workers))
    /\ todo' = BagToSet(append_locals(local, Workers))
    /\ local' = NoItems
    /\ pc' = "evaluate"
    /\ UNCHANGED <<cells, prev, gen, seed, overflow_checks, panicked, next_cells,
                   worldVars, builderVars>>

\* the candidate written into the component's set at once (next_cells.0.insert on cells)
ConsumeCandidateInPlace(w, key) ==
    /\ pc = "evaluate"
    /\ key \in todo
    /\ todo' = todo \ {key}
    /\ local' = [local EXCEPT ![w] = @ (+) option_items(main_evaluate(world, key))]
    /\ world' = IF main_evaluate(world, key) # << >> THEN world \cup {key} ELSE world \ {key}
    /\ UNCHANGED <<lifeVars, wgen, pc, builderVars>>

\* one candidate through .map(evaluate).flatten()
ConsumeCandidate(w, key) ==
    /\ pc = "evaluate"
    /\ key \in todo
    /\ todo' = todo \ {key}
    /\ local' = [local EXCEPT ![w] = @ (+) option_items(main_evaluate(world, key))]
    /\ UNCHANGED <<lifeVars, worldVars, pc, builderVars>>

\* .collect() into next_live_cells, and cells.0 = next_cells.0
ReplaceWorld ==
    /\ pc = "evaluate"
    /\ todo = {}
    /\ next_cells' = collect_set(append_locals(local, Workers))
    /\ world' = BagToSet(append_locals(local, Workers))
    /\ wgen' = wgen + 1
    /\ pc' = "done"
    /\ UNCHANGED <<cells, prev, gen, seed, overflow_checks, panicked, cells_to_check,
                   todo, local, builderVars>>

NextPar ==
    \/ BeginUpdateCells
    \/ \E w \in Workers, k \in todo : ConsumeCell(w, k)
    \/ CollectCells
    \/ BeginUpdateWorld
    \/ \E w \in Workers, k \in todo : ConsumeWorldCell(w, k)
    \/ CollectCandidates
    \/ \E w \in Workers, key \in todo : ConsumeCandidate(w, key)
    \/ ReplaceWorld

SpecPar == InitPar /\ [][NextPar]_vars

----------------------------------------------------------------------------
(* SpecBuilder: call sequences on a CellSetBuilder *)

\* a + b on i32 with overflow-checks off, and whether it overflows
Overflows32(a, b) == (b > 0 /\ a > IntMax - b) \/ (b < 0 /\ a < IntMin - b)
Add32(a, b) ==
    IF b > 0 /\ a > IntMax - b THEN IntMin + ((a - (IntMax - b)) - 1)
    ELSE IF b < 0 /\ a < IntMin - b THEN IntMax - (((IntMin - b) - a) - 1)
    ELSE a + b

\* the arguments the calls are made with
TransVecs == {<<2, 1>>, <<-1, -3>>, <<IntMax, 0>>}
RectDims == {<<2, 2>>}
HollowArgs == {<<1, <<3, 3>>>>}
RandomArgs == {<<2, <<2, 1>>>>}

\* hollow_rect(wall_thick, dim): the rectangle without its inner rectangle
hollow_rect_cells(wall_thick, dim) ==
    LET inner == {<<ix, iy>> : ix \in wall_thick..((dim[1] - wall_thick) - 1),
                               iy \in wall_thick..((dim[2] - wall_thick) - 1)}
    IN  solid_rect_cells(dim) \ inner

\* random(number, dim): the sets that number draws from 0..width x 0..height can insert
random_cells(number, dim) ==
    {c \in SUBSET solid_rect_cells(dim) :
        Cardinality(c) <= number /\ (number > 0 => c # {})}

\* self.committed = self.draft: the draft put in place of the committed set
committed_replaced_by_draft == draft

\* self.committed.union(&self.draft).map(|c| *c).collect()
committed_union_draft == committed \cup draft

\* self.draft.iter().map(|c| (c.0 + x, c.1 + y)).collect()
translated_draft(trans_vec) ==
    {<<Add32(c[1], trans_vec[1]), Add32(c[2], trans_vec[2])>> : c \in draft}
translate_overflows(trans_vec) ==
    \E c \in draft : Overflows32(c[1], trans_vec[1]) \/ Overflows32(c[2], trans_vec[2])

\* the ghost shape, moved by the ghost offset, in the arithmetic of i32
ShiftedShape == {<<Add32(c[1], offset[1]), Add32(c[2], offset[2])>> : c \in shape}

InitBuilder ==
    /\ seed = {}
    /\ cells = {}
    /\ prev = {}
    /\ gen = 0
    /\ overflow_checks \in BOOLEAN
    /\ panicked = FALSE
    /\ cells_to_check = EmptyBag
    /\ next_cells = EmptyBag
    /\ WorldIdle /\ ParIdle /\ BuilderIdle

CanCall == built = << >> /\ ~panicked /\ calls < MaxCalls

BuilderFrame == UNCHANGED <<lifeVars, worldVars, parVars>>

\* a shape factory: self = self.commit(); self.draft = new_cells
Factory(name, new_cells) ==
    /\ CanCall
    /\ committed' = committed_union_draft
    /\ draft' = new_cells
    /\ built' = built
    /\ calls' = calls + 1
    /\ last_call' = name
    /\ expected' = expected \cup ShiftedShape
    /\ shape' = new_cells
    /\ offset' = <<0, 0>>
    /\ BuilderFrame

glider == Factory(<<"glider">>, glider_cells)
blinker == Factory(<<"blinker">>, blinker_cells)
solid_rect(dim) == Factory(<<"solid_rect", dim>>, solid_rect_cells(dim))
hollow_rect(wall_thick, dim) ==
    Factory(<<"hollow_rect", wall_thick, dim>>, hollow_rect_cells(wall_thick, dim))
random(number, dim) ==
    \E new_cells \in random_cells(number, dim) : Factory(<<"random", number, dim>>, new_cells)

commit ==
    /\ CanCall
    /\ committed' = committed_union_draft
    /\ draft' = {}
    /\ built' = built
    /\ calls' = calls + 1
    /\ last_call' = <<"commit">>
    /\ expected' = expected \cup ShiftedShape
    /\ shape' = {}
    /\ offset' = <<0, 0>>
    /\ BuilderFrame

\* self = self.commit(); CellSet(self.committed)
build ==
    /\ CanCall
    /\ committed' = committed_union_draft
    /\ draft' = {}
    /\ built' = <<committed_union_draft>>
    /\ calls' = calls + 1
    /\ last_call' = <<"build">>
    /\ expected' = expected \cup ShiftedShape
    /\ shape' = {}
    /\ offset' = <<0, 0>>
    /\ BuilderFrame

translate(trans_vec) ==
    /\ CanCall
    /\ ~(overflow_checks /\ translate_overflows(trans_vec))
    /\ draft' = translated_draft(trans_vec)
    /\ calls' = calls + 1
    /\ last_call' = <<"translate", trans_vec>>
    /\ offset' = <<Add32(offset[1], trans_vec[1]), Add32(offset[2], trans_vec[2])>>
    /\ UNCHANGED <<committed, built, shape, expected>>
    /\ BuilderFrame

\* translate in a build with overflow-checks on, when c.0 + x or c.1 + y overflows
translate_panics(trans_vec) ==
    /\ CanCall
    /\ overflow_checks /\ translate_overflows(trans_vec)
    /\ panicked' = TRUE
    /\ UNCHANGED <<cells, prev, gen, seed, overflow_checks, cells_to_check, next_cells,
                   worldVars, parVars, builderVars>>

NextBuilder ==
    \/ glider
    \/ blinker
    \/ \E dim \in RectDims : solid_rect(dim)
    \/ \E a \in HollowArgs : hollow_rect(a[1], a[2])
    \/ \E a \in RandomArgs : random(a[1], a[2])
    \/ commit
    \/ build
    \/ \E v \in TransVecs : translate(v)
    \/ \E v \in TransVecs : translate_panics(v)

SpecBuilder == InitBuilder /\ [][NextBuilder]_vars

----------------------------------------------------------------------------
(* Geometry on the integers, written without the operators above *)

\* |a - b| <= 1, computed without leaving the range of i32
Near(a, b) == a = b \/ (a < IntMax /\ a + 1 = b) \/ (b < IntMax /\ b + 1 = a)
\* Chebyshev distance at most 1, exactly 1
WithinOne(p, c) == Near(p[1], c[1]) /\ Near(p[2], c[2])
Chebyshev1(p, c) == p # c /\ WithinOne(p, c)

\* a and b differ by at most one in the arithmetic of i32: Near, or the two limits
Adjacent32(a, b) == Near(a, b) \/ {a, b} = {IntMin, IntMax}
Around32(a) ==
    {a} \cup (IF a < IntMax THEN {a + 1} ELSE {IntMin}) \cup (IF a > IntMin THEN {a - 1} ELSE {IntMax})
IsNeighbour32(p, c) == p # c /\ Adjacent32(p[1], c[1]) /\ Adjacent32(p[2], c[2])
\* number of live cells of S next to c
LiveAround(S, c) == Cardinality({n \in S : IsNeighbour32(n, c)})
\* a live cell of S, or next to one
IsCandidate(S, c) == c \in S \/ \E k \in S : IsNeighbour32(c, k)
\* the rule of Life
RuleHolds(S, c) ==
    \/ c \in S /\ LiveAround(S, c) \in {2, 3}
    \/ c \notin S /\ LiveAround(S, c) = 3
\* the coordinates whose column and row are next to a live cell's
Box(S) ==
    {<<x, y>> : x \in UNION {Around32(k[1]) : k \in S}, y \in UNION {Around32(k[2]) : k \in S}}
NextGeneration(S) == {c \in Box(S) : IsCandidate(S, c) /\ RuleHolds(S, c)}

Shift(S, v) == {<<p[1] + v[1], p[2] + v[2]>> : p \in S}
\* S moved so that its bounding box starts at the origin
Normalise(S) ==
    LET minx == CHOOSE a \in {p[1] : p \in S} : \A p \in S : a <= p[1]
        miny == CHOOSE b \in {p[2] : p \in S} : \A p \in S : b <= p[2]
    IN  {<<p[1] - minx, p[2] - miny>> : p \in S}
IsTranslate(A, B) == (A = {} /\ B = {}) \/ (A # {} /\ B # {} /\ Normalise(A) = Normalise(B))
Diagonals == {<<dx, dy>> : dx \in {-1, 1}, dy \in {-1, 1}}
\* no coordinate of S is within one of a limit of i32
AwayFromLimits(S) ==
    \A k \in S : \A i \in 1..2 : k[i] > IntMin + 1 /\ k[i] < IntMax - 1

----------------------------------------------------------------------------
(* Claims checked under Spec *)

C3_NeverWraps ==
    gen > 0 => \A c \in BagToSet(cells_to_check) : \E k \in prev : WithinOne(c, k)

\* C5: bounded support: every cell of the new set lies within Chebyshev distance 1 of
\* a cell of the set the step was applied to, and the empty set yields the empty set.
C5_BoundedSupport ==
    gen > 0 => /\ \A c \in cells : \E k \in prev : WithinOne(c, k)
               /\ (prev = {} => cells = {})

\* C5, for sets away from the limits of i32
C5_AwayFromLimits == (gen > 0 /\ AwayFromLimits(prev)) => C5_BoundedSupport

\* what get_neighbors_keys and count_neighbors are said to be at the key c
NeighbourhoodExact(S, c) ==
    /\ Cardinality(get_neighbors_keys(c)) = 8
    /\ c \notin get_neighbors_keys(c)
    /\ \A n \in get_neighbors_keys(c) : Chebyshev1(n, c)
    /\ count_neighbors(S, c) \in 0..8
    /\ count_neighbors(S, c) = count_neighbors(S \ {c}, c)
    /\ count_neighbors(S, c) = count_neighbors(S \cup {c}, c)

\* C6: for every key a step evaluates, get_neighbors_keys is 8 distinct coordinates,
\* exactly those at Chebyshev distance 1, never the key; count_neighbors is in 0..8
\* and is the same whether or not the key itself is live.
C6_Neighbourhood ==
    gen > 0 => \A c \in prev \cup BagToSet(cells_to_check) : NeighbourhoodExact(prev, c)

\* C6, for sets away from the limits of i32
C6_AwayFromLimits == (gen > 0 /\ AwayFromLimits(prev)) => C6_Neighbourhood

\* C7: from the glider, 4 steps give the glider moved by one diagonal vector, and the
\* sets after 1, 2 and 3 steps are not translates of the glider.
C7_Glider ==
    seed = glider_cells =>
        /\ gen = 4 => \E v \in Diagonals : cells = Shift(glider_cells, v)
        /\ gen \in 1..3 => ~IsTranslate(cells, glider_cells)

C7_Witness == seed = glider_cells /\ gen = 4 /\ cells # glider_cells /\ Cardinality(cells) = 5

\* C8: the blinker alternates between the row and the column with period 2, and the
\* 2x2 block is a fixed point.
C8_BlinkerBlock ==
    /\ seed = blinker_cells =>
          cells = (IF gen % 2 = 0 THEN blinker_cells ELSE {<<0, -1>>, <<0, 0>>, <<0, 1>>})
    /\ seed = solid_rect_cells(<<2, 2>>) => cells = {<<0, 0>>, <<1, 0>>, <<0, 1>>, <<1, 1>>}

C8_Witness == seed = blinker_cells /\ gen = 2 /\ prev = {<<0, -1>>, <<0, 0>>, <<0, 1>>}

----------------------------------------------------------------------------
(* Claims checked under SpecBoth *)

\* C10: iterated from the same initial set, update_cells (candidates evaluated as a
\* stream with repeats) and update_world (candidates deduplicated first) hold the same
\* set after the same number of steps.
C10_SameGenerations == wgen = gen => world = cells

\* both have run twice on a set that lives on, and the stream of the last update_cells
\* repeated a candidate
C10_Witness ==
    /\ wgen = gen /\ gen >= 2
    /\ cells # {} /\ cells # seed
    /\ \E key \in BagToSet(cells_to_check) : CopiesIn(key, cells_to_check) > 1

----------------------------------------------------------------------------
(* Claims checked under SpecPar *)

\* C2: however the source items are spread over the workers and in whatever order they
\* are consumed, the finished step returns the same set, the next generation of its
\* input: no cell that satisfies the rule is missing, none is added, and a key that
\* several live cells proposed is in the result once.
C2_OrderIndependent ==
    pc = "done" =>
        /\ BagToSet(next_cells) = NextGeneration(seed)
        /\ \A key \in BagToSet(next_cells) : CopiesIn(key, next_cells) = 1
        /\ wgen > 0 => world = NextGeneration(seed)

\* update_cells has finished, every worker has produced cells of the result and some
\* cell of the result was produced more than once
C2_Witness ==
    /\ pc = "done" /\ gen = 1
    /\ \A w \in Workers : local[w] # EmptyBag
    /\ \E key \in BagToSet(next_cells) : CopiesIn(key, append_locals(local, Workers)) > 1

----------------------------------------------------------------------------
(* Claims checked under SpecBuilder *)

\* what the builder holds, against the shapes added so far
C9_State ==
    /\ committed = expected
    /\ draft = ShiftedShape
    /\ built # << >> => built[1] = expected /\ draft = {}

\* what a call changes
C9_Step ==
    /\ committed \subseteq committed'
    /\ calls' = calls + 1 /\ last_call'[1] = "translate" =>
          /\ committed' = committed
          /\ draft' = {<<Add32(c[1], last_call'[2][1]), Add32(c[2], last_call'[2][2])>> : c \in draft}
    /\ calls' = calls + 1 /\ last_call'[1] # "translate" =>
          committed' = committed \cup draft

\* C9: translate(v) adds v (in the arithmetic of Int) to every draft coordinate and
\* leaves committed as it was; commit, build and every shape factory add the draft to
\* committed by union, and no call removes a committed coordinate; committed is the
\* union of the earlier shapes, each moved by the sum of the vectors it was translated
\* by while it was the draft, and build returns that union with the last shape in it
\* and an empty draft.
C9_Builder == []C9_State /\ [][C9_Step]_vars

\* a glider moved once and a blinker moved twice, built
C9_Witness ==
    /\ built = <<Shift(glider_cells, <<2, 1>>) \cup Shift(blinker_cells, <<1, -2>>)>>
    /\ calls = 6

====
